---- MODULE Spec2Model ----
(***************************************************************************)
(* Model of the e-commerce data-warehouse loader, src/python/etl_pipeline.py *)
(*                                                                         *)
(* Three specifications share this module:                                 *)
(*   SpecNorm    the region normalizer (extract_region_data's mapping and  *)
(*               normalize_region_name) applied to bounded inputs;         *)
(*   Spec        run_etl_pipeline as a state machine over the warehouse,   *)
(*               run repeatedly from an empty warehouse;                   *)
(*   SpecSeeded  one run over a warehouse that holds rows with key 0.      *)
(*                                                                         *)
(* Text values are sequences of one-character strings, so that strip,      *)
(* lower, title and the substring test are computed as Python computes     *)
(* them.  None and NaN are one-element sequences whose element is not a    *)
(* single character, so they never equal a text value.                     *)
(***************************************************************************)
EXTENDS Integers, Sequences, FiniteSets, TLC

VARIABLES
    n_pc,       \* normalizer harness: "ready" | "done"
    n_ref,      \* region_name column of regions.xlsx, in row order
    n_raw,      \* the raw region handed to normalize_region_name
    n_out,      \* [value, step] of the last call
    n_prev,     \* the input of the call before a re-normalization
    pc,         \* position of run_etl_pipeline
    runs,       \* pipeline processes started so far
    connects,   \* connections acquired by the current process
    commits,    \* commits issued by the current process
    closes,     \* closes issued by the current process
    dim,        \* warehouse: dimension name -> set of rows [key, nk, att]
    fact_sales, \* warehouse: the fact rows, in insert order (a key reference
                \* is <<k>>, a null reference <<>>)
    maxid,      \* CachedDimension: last surrogate key handed out, per dimension
    cache,      \* CachedDimension: natural key -> surrogate key, per dimension
    product_df, \* product_id column of products.csv
    customer_df,\* customers.json rows [customer_id, customer_name]
    region_df,  \* region_name column of regions.xlsx (stripped on extraction)
    sales_df,   \* sales.csv rows
    date_df,    \* full_date column of the derived date dimension
    region_mapping_attr, \* extract_region_data.region_mapping
    idx,        \* 1-based position of the current loop
    fact_count,
    skipped_records,
    last        \* what processing the latest transaction did, and how many
                \* transactions each branch has skipped so far (kept until commit)

nvars == <<n_pc, n_ref, n_raw, n_out, n_prev>>
pvars == <<pc, runs, connects, commits, closes, dim, fact_sales, maxid, cache,
           product_df, customer_df, region_df, sales_df, date_df,
           region_mapping_attr, idx, fact_count, skipped_records, last>>
vars == <<nvars, pvars>>

(***************************************************************************)
(* Text                                                                    *)
(***************************************************************************)
None == <<"None">>
NaN == <<"NaN">>

LowerLetters ==
    <<"a", "b", "c", "d", "e", "f", "g", "h", "i", "j", "k", "l", "m",
      "n", "o", "p", "q", "r", "s", "t", "u", "v", "w", "x", "y", "z">>
UpperLetters ==
    <<"A", "B", "C", "D", "E", "F", "G", "H", "I", "J", "K", "L", "M",
      "N", "O", "P", "Q", "R", "S", "T", "U", "V", "W", "X", "Y", "Z">>
WhiteSpace == {" ", "\t"}

IsLower(c) == \E i \in 1..Len(LowerLetters) : LowerLetters[i] = c
IsUpper(c) == \E i \in 1..Len(UpperLetters) : UpperLetters[i] = c
IsLetter(c) == IsLower(c) \/ IsUpper(c)

LowerChar(c) ==
    IF IsUpper(c)
    THEN LowerLetters[CHOOSE i \in 1..Len(UpperLetters) : UpperLetters[i] = c]
    ELSE c
UpperChar(c) ==
    IF IsLower(c)
    THEN UpperLetters[CHOOSE i \in 1..Len(LowerLetters) : LowerLetters[i] = c]
    ELSE c

\* str.lower()
Lower(s) == [i \in 1..Len(s) |-> LowerChar(s[i])]
\* str.upper()
Upper(s) == [i \in 1..Len(s) |-> UpperChar(s[i])]
\* str.title(): a letter that follows a non-letter is upper-cased, every
\* other letter is lower-cased
Title(s) ==
    [i \in 1..Len(s) |->
        IF i = 1 \/ ~IsLetter(s[i - 1]) THEN UpperChar(s[i]) ELSE LowerChar(s[i])]

RECURSIVE LStrip(_)
LStrip(s) ==
    IF s # <<>> /\ Head(s) \in WhiteSpace THEN LStrip(Tail(s)) ELSE s
RECURSIVE RStrip(_)
RStrip(s) ==
    IF s # <<>> /\ s[Len(s)] \in WhiteSpace
    THEN RStrip(SubSeq(s, 1, Len(s) - 1))
    ELSE s
\* str.strip()
Strip(s) == RStrip(LStrip(s))

\* Python's  a in b  on strings
IsSubstr(a, b) ==
    \E i \in 0..(Len(b) - Len(a)) : SubSeq(b, i + 1, i + Len(a)) = a

(***************************************************************************)
(* Python dicts keep insertion order: a dict is a sequence of <<key,       *)
(* value>> pairs with distinct keys; assigning an existing key replaces    *)
(* the value in place, a new key is appended.                              *)
(***************************************************************************)
DictHas(d, k) == \E i \in 1..Len(d) : d[i][1] = k
DictGet(d, k) == d[CHOOSE i \in 1..Len(d) : d[i][1] = k][2]
DictSet(d, k, v) ==
    IF DictHas(d, k)
    THEN [i \in 1..Len(d) |-> IF d[i][1] = k THEN <<k, v>> ELSE d[i]]
    ELSE Append(d, <<k, v>>)
RECURSIVE DictUpdate(_, _)
DictUpdate(d, pairs) ==
    IF pairs = <<>> THEN d
    ELSE DictUpdate(DictSet(d, Head(pairs)[1], Head(pairs)[2]), Tail(pairs))
DictValues(d) == {d[i][2] : i \in 1..Len(d)}
DictKeys(d) == {d[i][1] : i \in 1..Len(d)}

\* Series.unique(): the distinct values in order of first appearance
RECURSIVE Unique(_)
Unique(s) ==
    IF s = <<>> THEN <<>>
    ELSE LET r == Unique(SubSeq(s, 1, Len(s) - 1))
             x == s[Len(s)]
         IN IF \E i \in 1..Len(r) : r[i] = x THEN r ELSE Append(r, x)

(***************************************************************************)
(* The alias table of extract_region_data, as written                      *)
(***************************************************************************)
k_europe_central == <<"e", "u", "r", "o", "p", "e", " ", "c", "e", "n", "t", "r", "a", "l">>
k_east == <<"e", "a", "s", "t">>
k_west == <<"w", "e", "s", "t">>
k_north == <<"n", "o", "r", "t", "h">>
k_south == <<"s", "o", "u", "t", "h">>
k_asia == <<"a", "s", "i", "a">>
k_emea == <<"e", "m", "e", "a">>
k_europe == <<"e", "u", "r", "o", "p", "e">>
k_america == <<"a", "m", "e", "r", "i", "c", "a">>
k_apj == <<"a", "p", "j">>
k_north_america == <<"n", "o", "r", "t", "h", " ", "a", "m", "e", "r", "i", "c", "a">>
k_south_america == <<"s", "o", "u", "t", "h", " ", "a", "m", "e", "r", "i", "c", "a">>
k_europe_west == <<"e", "u", "r", "o", "p", "e", " ", "w", "e", "s", "t">>
k_europe_east == <<"e", "u", "r", "o", "p", "e", " ", "e", "a", "s", "t">>
k_asia_pacific == <<"a", "s", "i", "a", " ", "p", "a", "c", "i", "f", "i", "c">>
k_europe_middle_east_africa ==
    <<"e", "u", "r", "o", "p", "e", " ", "m", "i", "d", "d", "l", "e", " ",
      "e", "a", "s", "t", " ", "a", "f", "r", "i", "c", "a">>
v_Europe_Central == <<"E", "u", "r", "o", "p", "e", " ", "C", "e", "n", "t", "r", "a", "l">>
v_Europe_East == <<"E", "u", "r", "o", "p", "e", " ", "E", "a", "s", "t">>
v_Europe_West == <<"E", "u", "r", "o", "p", "e", " ", "W", "e", "s", "t">>
v_North_America == <<"N", "o", "r", "t", "h", " ", "A", "m", "e", "r", "i", "c", "a">>
v_South_America == <<"S", "o", "u", "t", "h", " ", "A", "m", "e", "r", "i", "c", "a">>
v_Asia_Pacific == <<"A", "s", "i", "a", " ", "P", "a", "c", "i", "f", "i", "c">>
v_Europe_Middle_East_Africa ==
    <<"E", "u", "r", "o", "p", "e", " ", "M", "i", "d", "d", "l", "e", " ",
      "E", "a", "s", "t", " ", "A", "f", "r", "i", "c", "a">>

\* the dict literal: 17 written items, 'europe central' written twice
region_aliases ==
    DictUpdate(<<>>, <<
        <<k_europe_central, v_Europe_Central>>,
        <<k_east, v_Europe_East>>,
        <<k_west, v_Europe_West>>,
        <<k_north, v_North_America>>,
        <<k_south, v_South_America>>,
        <<k_asia, v_Asia_Pacific>>,
        <<k_emea, v_Europe_Middle_East_Africa>>,
        <<k_europe, v_Europe_Central>>,
        <<k_america, v_North_America>>,
        <<k_apj, v_Asia_Pacific>>,
        <<k_north_america, v_North_America>>,
        <<k_south_america, v_South_America>>,
        <<k_europe_west, v_Europe_West>>,
        <<k_europe_east, v_Europe_East>>,
        <<k_europe_central, v_Europe_Central>>,
        <<k_asia_pacific, v_Asia_Pacific>>,
        <<k_europe_middle_east_africa, v_Europe_Middle_East_Africa>> >>)

(***************************************************************************)
(* extract_region_data: the region_name column is stripped, then indexed   *)
(***************************************************************************)
\* df['region_name'].str.strip()
StripColumn(names) == [i \in 1..Len(names) |-> Strip(names[i])]

\* {region.lower(): region for region in df['region_name'].unique()}
canonical_regions(names) ==
    LET u == Unique(StripColumn(names))
    IN DictUpdate(<<>>, [i \in 1..Len(u) |-> <<Lower(u[i]), u[i]>>])

\* faulty variant: the merge gives priority to the aliases
region_mapping_aliases_win(names) ==
    DictUpdate(
        canonical_regions(names),
        [i \in 1..Len(region_aliases) |->
            <<Lower(region_aliases[i][1]), region_aliases[i][2]>>])

\* {**{k.lower(): v for k, v in region_aliases.items()}, **canonical_regions}
region_mapping(names) ==
    DictUpdate(
        DictUpdate(<<>>, [i \in 1..Len(region_aliases) |->
                            <<Lower(region_aliases[i][1]), region_aliases[i][2]>>]),
        canonical_regions(names))

(***************************************************************************)
(* normalize_region_name: the value returned and the branch returning it   *)
(***************************************************************************)
PartialMatches(region_str, mapping) ==
    {i \in 1..Len(mapping) :
        IsSubstr(mapping[i][1], region_str) \/ IsSubstr(region_str, mapping[i][1])}

Min(S) == CHOOSE x \in S : \A y \in S : x <= y

\* faulty variant: the input is trimmed but not lower-cased
Normalize_no_lower(region_name, mapping) ==
    IF region_name = <<>> \/ region_name = None \/ region_name = NaN
    THEN [value |-> None, step |-> "null"]
    ELSE LET region_str == Strip(region_name)
             title_case == Title(region_str)
         IN IF DictHas(mapping, region_str)
            THEN [value |-> DictGet(mapping, region_str), step |-> "exact"]
            ELSE IF PartialMatches(region_str, mapping) # {}
            THEN [value |-> mapping[Min(PartialMatches(region_str, mapping))][2],
                  step |-> "partial"]
            ELSE IF title_case \in DictValues(mapping)
            THEN [value |-> title_case, step |-> "title"]
            ELSE [value |-> title_case, step |-> "fabricated"]

\* faulty variant: the fallback returns the cleaned string without title-casing it
Normalize_fallback_untitled(region_name, mapping) ==
    IF region_name = <<>> \/ region_name = None \/ region_name = NaN
    THEN [value |-> None, step |-> "null"]
    ELSE LET region_str == Lower(Strip(region_name))
             title_case == Title(region_str)
         IN IF DictHas(mapping, region_str)
            THEN [value |-> DictGet(mapping, region_str), step |-> "exact"]
            ELSE IF PartialMatches(region_str, mapping) # {}
            THEN [value |-> mapping[Min(PartialMatches(region_str, mapping))][2],
                  step |-> "partial"]
            ELSE IF title_case \in DictValues(mapping)
            THEN [value |-> title_case, step |-> "title"]
            ELSE [value |-> region_str, step |-> "fabricated"]

\* faulty variant: of the keys that match by substring the longest wins
Normalize_longest_match(region_name, mapping) ==
    IF region_name = <<>> \/ region_name = None \/ region_name = NaN
    THEN [value |-> None, step |-> "null"]
    ELSE LET region_str == Lower(Strip(region_name))
             title_case == Title(region_str)
             m == PartialMatches(region_str, mapping)
             longest == {i \in m : \A j \in m : Len(mapping[j][1]) <= Len(mapping[i][1])}
         IN IF DictHas(mapping, region_str)
            THEN [value |-> DictGet(mapping, region_str), step |-> "exact"]
            ELSE IF m # {}
            THEN [value |-> mapping[Min(longest)][2], step |-> "partial"]
            ELSE IF title_case \in DictValues(mapping)
            THEN [value |-> title_case, step |-> "title"]
            ELSE [value |-> title_case, step |-> "fabricated"]

Normalize(region_name, mapping) ==
    IF region_name = <<>> \/ region_name = None \/ region_name = NaN
    THEN [value |-> None, step |-> "null"]
    ELSE LET region_str == Lower(Strip(region_name))
             title_case == Title(region_str)
         IN IF DictHas(mapping, region_str)
            THEN [value |-> DictGet(mapping, region_str), step |-> "exact"]
            ELSE IF PartialMatches(region_str, mapping) # {}
            THEN [value |-> mapping[Min(PartialMatches(region_str, mapping))][2],
                  step |-> "partial"]
            ELSE IF title_case \in DictValues(mapping)
            THEN [value |-> title_case, step |-> "title"]
            ELSE [value |-> title_case, step |-> "fabricated"]

normalize_region_name(region_name, mapping) == Normalize(region_name, mapping).value

(***************************************************************************)
(* Bounds and sample text                                                  *)
(***************************************************************************)
MaxRegionRows == 2

Unset == <<"Unset">>

SeqsUpTo(S, n) == UNION {[1..k -> S] : k \in 0..n}

r_Europe_South == <<"E", "u", "r", "o", "p", "e", " ", "S", "o", "u", "t", "h">>
r_europe_south == <<"e", "u", "r", "o", "p", "e", " ", "s", "o", "u", "t", "h">>
r_Asia_Pacific_padded == <<" ">> \o v_Asia_Pacific \o <<" ">>
r_East == <<"E", "a", "s", "t">>
r_EUROPE_EAST == <<"E", "U", "R", "O", "P", "E", " ", "E", "A", "S", "T">>
r_Mars == <<"M", "a", "r", "s">>
r_blank == <<" ">>
s_Other == <<"O", "t", "h", "e", "r">>
s_mARS_padded == <<" ", "m", "A", "R", "S", "\t">>
s_eur == <<"e", "u", "r">>
s_Pacific == <<"P", "a", "c", "i", "f", "i", "c">>
s_Europe_East_Zone == v_Europe_East \o <<" ", "Z", "o", "n", "e">>
s_xyz == <<"x", "y", "z">>

(***************************************************************************)
(* The warehouse and pygrametl's CachedDimension, as run_etl_pipeline      *)
(* configures it.  A lookup result is <<>> for None and <<k>> for key k.   *)
(***************************************************************************)
Dimensions == {"product", "date", "customer", "region"}

Max(S) == CHOOSE x \in S : \A y \in S : x >= y

Keys(rows) == {r.key : r \in rows}

\* SELECT key FROM dim WHERE lookupatt = nk
DbLookup(rows, nk) ==
    LET hits == {r.key : r \in {q \in rows : q.nk = nk}}
    IN IF hits = {} THEN <<>> ELSE <<Min(hits)>>

CacheHas(c, nk) == \E e \in c : e[1] = nk
CacheGet(c, nk) == (CHOOSE e \in c : e[1] = nk)[2]
CachePut(c, nk, k) == {e \in c : e[1] # nk} \cup {<<nk, k>>}

\* CachedDimension.lookup: the cache first, then the warehouse; a key found
\* in the warehouse is cached, a miss is returned as None
Lookup(d, nk, dimv, cachev) ==
    IF CacheHas(cachev[d], nk)
    THEN [key |-> <<CacheGet(cachev[d], nk)>>, cache |-> cachev]
    ELSE LET found == DbLookup(dimv[d], nk)
         IN [key |-> found,
             cache |-> IF found = <<>> THEN cachev
                       ELSE [cachev EXCEPT ![d] = CachePut(@, nk, found[1])]]

\* CachedDimension.__init__: the key counter starts at MAX(key), 0 if empty
InitialMaxId(rows) == IF rows = {} THEN 0 ELSE Max(Keys(rows))

(***************************************************************************)
(* Transformation                                                          *)
(***************************************************************************)
\* Series.round(2) on a non-negative amount held in thousandths (half to even)
Round2(x) ==
    LET r == x % 10
        base == x - r
    IN IF r < 5 THEN base
       ELSE IF r > 5 THEN base + 10
       ELSE IF (base \div 10) % 2 = 0 THEN base ELSE base + 10

transform_sales_data(df) ==
    [i \in 1..Len(df) |->
        [product_id |-> df[i].product_id,
         customer_id |-> df[i].customer_id,
         order_date |-> df[i].order_date,
         region |-> df[i].region,
         quantity |-> df[i].quantity,
         discount |-> df[i].discount,
         total_amount |-> Round2(df[i].quantity * df[i].unit_price),
         unit_price |-> Round2(df[i].unit_price)]]

\* faulty variant: the last row of each id is kept
RECURSIVE transform_customer_data_keep_last(_)
transform_customer_data_keep_last(df) ==
    IF df = <<>> THEN <<>>
    ELSE LET r == transform_customer_data_keep_last(Tail(df))
             x == Head(df)
         IN IF \E i \in 1..Len(r) : r[i].customer_id = x.customer_id
            THEN r ELSE <<x>> \o r

\* drop_duplicates(subset=['customer_id']): the first row of each id is kept
RECURSIVE transform_customer_data(_)
transform_customer_data(df) ==
    IF df = <<>> THEN <<>>
    ELSE LET r == transform_customer_data(SubSeq(df, 1, Len(df) - 1))
             x == df[Len(df)]
         IN IF \E i \in 1..Len(r) : r[i].customer_id = x.customer_id
            THEN r ELSE Append(r, x)

create_date_dimension(sales) ==
    Unique([i \in 1..Len(sales) |-> sales[i].order_date])

(***************************************************************************)
(* Source data                                                             *)
(***************************************************************************)
MaxRuns == 2
MaxSales == 2

\* products.csv with customers.json: a full catalogue with a customer listed
\* twice, and a short catalogue listing one product twice, in which customer
\* C1 is listed first under another name
MasterSources ==
    {[products |-> <<"P1", "P2", "P3">>,
      customers |-> << [customer_id |-> "C1", customer_name |-> "Ann"],
                       [customer_id |-> "C1", customer_name |-> "Bob"],
                       [customer_id |-> "C2", customer_name |-> "Cy"] >>],
     [products |-> <<"P1", "P1">>,
      customers |-> << [customer_id |-> "C1", customer_name |-> "Anna"],
                       [customer_id |-> "C1", customer_name |-> "Ann"] >>]}

\* the generator's regions (one row per country), and a table holding Mars
RegionSources ==
    {<<v_North_America, <<" ">> \o r_Europe_South, r_Europe_South>>,
     <<r_Mars>>}

\* pd.to_datetime of an empty cell
NaT == [day |-> "NaT", time |-> "NaT"]
Day1 == [day |-> "2024-01-01", time |-> "00:00"]
Day1Late == [day |-> "2024-01-01", time |-> "10:30"]
Day2 == [day |-> "2024-01-02", time |-> "00:00"]

Sale(p, c, d, r, q, u, disc) ==
    [product_id |-> p, customer_id |-> c, order_date |-> d, region |-> r,
     quantity |-> q, unit_price |-> u, discount |-> disc]

\* unit_price in thousandths, discount in hundredths (<<>> is a null cell)
SalePool ==
    {Sale("P1", "C1", Day1, Lower(v_North_America) \o <<" ">>, 3, 1004, <<>>),
     Sale("P4", "C1", Day1, r_Europe_South, 1, 2500, <<0>>),
     Sale("P3", "C2", Day1Late, s_mARS_padded, 2, 1990, <<10>>),
     Sale("P1", "C3", Day2, <<" ">>, 1, 1005, <<5>>)}

SalesSources == SeqsUpTo(SalePool, MaxSales)

(***************************************************************************)
(* run_etl_pipeline: the loading loops                                     *)
(***************************************************************************)
\* faulty variant: the fact loop runs before the region loop
PhaseOrder_facts_before_regions ==
    <<"products", "dates", "customers", "facts", "regions">>

\* the loading loops in program order
PhaseOrder == <<"products", "dates", "customers", "regions", "facts">>

PhaseIndex(ph) == CHOOSE k \in 1..Len(PhaseOrder) : PhaseOrder[k] = ph

\* the first loop from position k on that has a row to process; a loop over
\* an empty frame is passed without a step
RECURSIVE FirstPhaseFrom(_, _)
FirstPhaseFrom(k, lens) ==
    IF k > Len(PhaseOrder) THEN "commit"
    ELSE IF lens[PhaseOrder[k]] > 0 THEN PhaseOrder[k]
    ELSE FirstPhaseFrom(k + 1, lens)

\* where control is once row i of loop ph has been processed
After(ph, i, lens) ==
    IF i < lens[ph]
    THEN [pc |-> ph, idx |-> i + 1]
    ELSE [pc |-> FirstPhaseFrom(PhaseIndex(ph) + 1, lens), idx |-> 1]

Lens ==
    [ph \in {PhaseOrder[k] : k \in 1..Len(PhaseOrder)} |->
        CASE ph = "products" -> Len(product_df)
          [] ph = "dates" -> Len(date_df)
          [] ph = "customers" -> Len(customer_df)
          [] ph = "regions" -> Len(region_df)
          [] ph = "facts" -> Len(sales_df)]

\* faulty variant: every source row is inserted, whatever the lookup returned
Missing_always(d, key) == TRUE

\* faulty variant: no source row is ever inserted
Missing_never(d, key) == FALSE

\* the test guarding dim.insert:  `not lookup(...)`  for product, date and
\* customer,  `lookup(...) is None`  for region
Missing(d, key) ==
    IF d = "region" THEN key = <<>> ELSE (key = <<>> \/ key = <<0>>)

\* one iteration of a dimension loop: lookup, then insert if missing.
\* CachedDimension.insert hands out maxid + 1 and caches the new key.
LoadDimRow(d, ph, nk, att) ==
    LET l == Lookup(d, nk, dim, cache)
        k == maxid[d] + 1
        nxt == After(ph, idx, Lens)
    IN /\ IF Missing(d, l.key)
          THEN /\ dim' = [dim EXCEPT ![d] = @ \cup {[key |-> k, nk |-> nk, att |-> att]}]
               /\ cache' = [l.cache EXCEPT ![d] = CachePut(@, nk, k)]
               /\ maxid' = [maxid EXCEPT ![d] = k]
          ELSE /\ cache' = l.cache
               /\ UNCHANGED <<dim, maxid>>
       /\ pc' = nxt.pc
       /\ idx' = nxt.idx
       /\ UNCHANGED <<runs, connects, commits, closes, fact_sales, product_df,
                      customer_df, region_df, sales_df, date_df,
                      region_mapping_attr, fact_count, skipped_records, last>>
       /\ UNCHANGED nvars

LoadProductRow ==
    /\ pc = "products"
    /\ LoadDimRow("product", "products", product_df[idx], "")

LoadDateRow ==
    /\ pc = "dates"
    /\ LoadDimRow("date", "dates", date_df[idx], "")

LoadCustomerRow ==
    /\ pc = "customers"
    /\ LoadDimRow("customer", "customers", customer_df[idx].customer_id,
                  customer_df[idx].customer_name)

LoadRegionRow ==
    /\ pc = "regions"
    /\ LoadDimRow("region", "regions", region_df[idx], "")

(***************************************************************************)
(* run_etl_pipeline: one transaction of the fact loop                      *)
(***************************************************************************)
\* the steps of the loop body, in program order
AllOps ==
    <<"precheck", "normalize", "lookup_product", "lookup_date",
      "lookup_customer", "lookup_region", "null_check", "measures", "insert">>

OpIndex(op) == CHOOSE k \in 1..Len(AllOps) : AllOps[k] = op

\* where an exception may be raised inside the try block
FaultPoints ==
    {"none", "precheck", "normalize", "lookup_product", "lookup_date",
     "lookup_customer", "lookup_region", "measures", "insert"}

\* set(product_df['product_id'].unique())
ValidProducts == {product_df[i] : i \in 1..Len(product_df)}

\* faulty variant: no product pre-check
InvalidProduct_never(row, valid_products) == FALSE

\* row['product_id'] not in valid_products
InvalidProduct(row, valid_products) == row.product_id \notin valid_products

\* faulty variant: the null test is dropped
HasNone_never(keys) == FALSE

\* None in fact_row.values()
HasNone(keys) ==
    \/ keys.product_key = <<>>
    \/ keys.date_key = <<>>
    \/ keys.customer_key = <<>>
    \/ keys.region_key = <<>>

\* The try block for one row, with an exception raised at step `fault` if the
\* row gets that far.  region: what normalize_region_name returns for the
\* row's region if it is called.  ops: the steps entered; cache: as left by
\* the lookups that completed.
RowBody(row, region, fault, valid_products, dimv, cachev) ==
    LET l1 == Lookup("product", row.product_id, dimv, cachev)
        l2 == Lookup("date", row.order_date, dimv, l1.cache)
        l3 == Lookup("customer", row.customer_id, dimv, l2.cache)
        l4 == Lookup("region", region, dimv, l3.cache)
        keys == [product_key |-> l1.key, date_key |-> l2.key,
                 customer_key |-> l3.key, region_key |-> l4.key]
        reach == IF InvalidProduct(row, valid_products) THEN OpIndex("precheck")
                 ELSE IF HasNone(keys) THEN OpIndex("null_check")
                 ELSE OpIndex("insert")
        f == IF fault = "none" THEN 0 ELSE OpIndex(fault)
        raised == f # 0 /\ f <= reach
        entered == IF raised THEN f ELSE reach
        completed == IF raised THEN f - 1 ELSE reach
        admitted == ~raised /\ reach = OpIndex("insert")
    IN [raised |-> raised,
        ops |-> SubSeq(AllOps, 1, entered),
        outcome |-> IF raised THEN "raised"
                    ELSE IF admitted THEN "admitted" ELSE "skipped",
        reason |-> IF raised THEN "exception"
                   ELSE IF reach = OpIndex("precheck") THEN "invalid_product"
                   ELSE IF reach = OpIndex("null_check") THEN "unresolved"
                   ELSE "none",
        region |-> IF completed >= OpIndex("normalize") THEN region ELSE Unset,
        cache |-> IF completed >= OpIndex("lookup_region") THEN l4.cache
                  ELSE IF completed >= OpIndex("lookup_customer") THEN l3.cache
                  ELSE IF completed >= OpIndex("lookup_date") THEN l2.cache
                  ELSE IF completed >= OpIndex("lookup_product") THEN l1.cache
                  ELSE cachev,
        fact_row |-> IF admitted
                     THEN <<[product_key |-> l1.key, date_key |-> l2.key,
                             customer_key |-> l3.key, region_key |-> l4.key,
                             quantity |-> row.quantity,
                             unit_price |-> row.unit_price,
                             discount |-> row.discount,
                             total_amount |-> row.total_amount]>>
                     ELSE <<>>]

\* faulty variant: the exception is not caught
except_Exception_reraise(res) == res

\* faulty variant: the exception is swallowed without counting the row
except_Exception_uncounted(res) ==
    IF res.raised
    THEN [res EXCEPT !.raised = FALSE, !.outcome = "dropped"]
    ELSE res

\* except Exception: skipped_records += 1; continue
except_Exception(res) ==
    IF res.raised
    THEN [res EXCEPT !.raised = FALSE, !.outcome = "skipped"]
    ELSE res

\* the branches of the loop body that add one to skipped_records
SkipReasons == {"invalid_product", "unresolved", "exception"}

NoLast ==
    [row |-> 0, fault |-> "none", ops |-> <<>>, outcome |-> "none",
     reason |-> "none", raw |-> Unset, region |-> Unset,
     skips |-> [r \in SkipReasons |-> 0]]

LoadFactRow ==
    /\ pc = "facts"
    /\ \E fault \in FaultPoints,
          region \in {IF InvalidProduct(sales_df[idx], ValidProducts) THEN Unset
                      ELSE normalize_region_name(sales_df[idx].region,
                                                 region_mapping_attr)} :
        LET res == except_Exception(
                       RowBody(sales_df[idx], region, fault, ValidProducts,
                               dim, cache))
            nxt == After("facts", idx, Lens)
        IN /\ cache' = res.cache
           /\ fact_sales' = fact_sales \o res.fact_row
           /\ fact_count' = fact_count + (IF res.outcome = "admitted" THEN 1 ELSE 0)
           /\ skipped_records' = skipped_records + (IF res.outcome = "skipped" THEN 1 ELSE 0)
           /\ last' = [row |-> idx,
                       fault |-> IF res.reason = "exception" THEN fault ELSE "none",
                       ops |-> res.ops, outcome |-> res.outcome,
                       reason |-> res.reason, raw |-> sales_df[idx].region,
                       region |-> res.region,
                       skips |-> IF res.reason \in SkipReasons
                                 THEN [last.skips EXCEPT ![res.reason] = @ + 1]
                                 ELSE last.skips]
           /\ pc' = IF res.raised THEN "failed" ELSE nxt.pc
           /\ idx' = IF res.raised THEN idx ELSE nxt.idx
    /\ UNCHANGED <<runs, connects, commits, closes, dim, maxid, product_df,
                   customer_df, region_df, sales_df, date_df, region_mapping_attr>>
    /\ UNCHANGED nvars

(***************************************************************************)
(* run_etl_pipeline: what the run prints about its load                    *)
(***************************************************************************)
\* the lines printed after the fact loop: the facts loaded, and, when any
\* record was skipped, the one skipped_records total
end_of_run_report(fc, sk) ==
    <<[label |-> "Loaded sales facts", n |-> fc]>>
    \o (IF sk > 0
        THEN <<[label |-> "Skipped records due to missing references", n |-> sk]>>
        ELSE <<>>)

\* the lines printed after each dimension loop, then those after the fact loop
Report ==
    <<[label |-> "Processed products", n |-> Len(product_df)],
      [label |-> "Processed dates", n |-> Len(date_df)],
      [label |-> "Processed customers", n |-> Len(customer_df)],
      [label |-> "Loaded regions", n |-> Len(region_df)]>>
    \o end_of_run_report(fact_count, skipped_records)

\* the ways `total` skipped transactions can divide over the three branches
Splits(total) ==
    {sp \in [SkipReasons -> 0..total] :
        sp["invalid_product"] + sp["unresolved"] + sp["exception"] = total}

\* the closing lines of a run whose skips divide as sp: every branch adds to
\* the same counter, and that counter is what is printed
ReportFor(fc, sp) ==
    end_of_run_report(fc, sp["invalid_product"] + sp["unresolved"] + sp["exception"])

(***************************************************************************)
(* run_etl_pipeline: connection, extraction, transformation, commit        *)
(***************************************************************************)
EmptyFrames ==
    /\ product_df' = <<>>
    /\ customer_df' = <<>>
    /\ region_df' = <<>>
    /\ sales_df' = <<>>
    /\ date_df' = <<>>
    /\ region_mapping_attr' = <<>>
    /\ idx' = 1
    /\ fact_count' = 0
    /\ skipped_records' = 0
    /\ last' = NoLast

\* get_db_connection succeeds; the dimensions and the fact table are defined
Connect ==
    /\ pc = "idle"
    /\ pc' = "extract"
    /\ connects' = connects + 1
    /\ maxid' = [d \in Dimensions |-> InitialMaxId(dim[d])]
    /\ cache' = [d \in Dimensions |-> {}]
    /\ UNCHANGED <<runs, commits, closes, dim, fact_sales, product_df,
                   customer_df, region_df, sales_df, date_df,
                   region_mapping_attr, idx, fact_count, skipped_records, last>>
    /\ UNCHANGED nvars

\* get_db_connection fails: sys.exit(1)
ConnectFail ==
    /\ pc = "idle"
    /\ pc' = "failed"
    /\ UNCHANGED <<runs, connects, commits, closes, dim, fact_sales, maxid,
                   cache, product_df, customer_df, region_df, sales_df, date_df,
                   region_mapping_attr, idx, fact_count, skipped_records, last>>
    /\ UNCHANGED nvars

\* the four extract_* calls succeed
Extract ==
    /\ pc = "extract"
    /\ \E m \in MasterSources, r \in RegionSources, s \in SalesSources :
        /\ product_df' = m.products
        /\ customer_df' = m.customers
        /\ region_df' = StripColumn(r)
        /\ region_mapping_attr' = region_mapping(r)
        /\ sales_df' = s
    /\ pc' = "transform"
    /\ UNCHANGED <<runs, connects, commits, closes, dim, fact_sales, maxid,
                   cache, date_df, idx, fact_count, skipped_records, last>>
    /\ UNCHANGED nvars

\* a source lacks a mandatory column: ValueError leaves run_etl_pipeline
ExtractFail ==
    /\ pc = "extract"
    /\ pc' = "failed"
    /\ UNCHANGED <<runs, connects, commits, closes, dim, fact_sales, maxid,
                   cache, product_df, customer_df, region_df, sales_df, date_df,
                   region_mapping_attr, idx, fact_count, skipped_records, last>>
    /\ UNCHANGED nvars

Transform ==
    /\ pc = "transform"
    /\ sales_df' = transform_sales_data(sales_df)
    /\ customer_df' = transform_customer_data(customer_df)
    /\ date_df' = create_date_dimension(transform_sales_data(sales_df))
    /\ pc' = FirstPhaseFrom(1,
                [Lens EXCEPT !["customers"] = Len(transform_customer_data(customer_df)),
                             !["dates"] = Len(create_date_dimension(sales_df))])
    /\ idx' = 1
    /\ UNCHANGED <<runs, connects, commits, closes, dim, fact_sales, maxid,
                   cache, product_df, region_df, region_mapping_attr,
                   fact_count, skipped_records, last>>
    /\ UNCHANGED nvars

\* faulty variant: commit is issued without leaving the commit point
Commit_again ==
    /\ pc = "commit"
    /\ commits' = commits + 1
    /\ last' = NoLast
    /\ UNCHANGED <<pc, runs, connects, closes, dim, fact_sales, maxid, cache,
                   product_df, customer_df, region_df, sales_df, date_df,
                   region_mapping_attr, idx, fact_count, skipped_records>>
    /\ UNCHANGED nvars

\* dwh_conn.commit()
Commit ==
    /\ pc = "commit"
    /\ commits' = commits + 1
    /\ pc' = "close"
    /\ last' = NoLast
    /\ UNCHANGED <<runs, connects, closes, dim, fact_sales, maxid, cache,
                   product_df, customer_df, region_df, sales_df, date_df,
                   region_mapping_attr, idx, fact_count, skipped_records>>
    /\ UNCHANGED nvars

\* dwh_conn.close()
Close ==
    /\ pc = "close"
    /\ closes' = closes + 1
    /\ pc' = "done"
    /\ UNCHANGED <<runs, connects, commits, dim, fact_sales, maxid, cache,
                   product_df, customer_df, region_df, sales_df, date_df,
                   region_mapping_attr, idx, fact_count, skipped_records, last>>
    /\ UNCHANGED nvars

\* the script is started again: a new process over the same warehouse
NextRun ==
    /\ pc \in {"done", "failed"}
    /\ runs < MaxRuns
    /\ runs' = runs + 1
    /\ pc' = "idle"
    /\ connects' = 0
    /\ commits' = 0
    /\ closes' = 0
    /\ maxid' = [d \in Dimensions |-> 0]
    /\ cache' = [d \in Dimensions |-> {}]
    /\ EmptyFrames
    /\ UNCHANGED <<dim, fact_sales>>
    /\ UNCHANGED nvars

PipelineStart ==
    /\ pc = "idle"
    /\ runs = 1
    /\ connects = 0
    /\ commits = 0
    /\ closes = 0
    /\ dim = [d \in Dimensions |-> {}]
    /\ fact_sales = <<>>
    /\ maxid = [d \in Dimensions |-> 0]
    /\ cache = [d \in Dimensions |-> {}]
    /\ product_df = <<>>
    /\ customer_df = <<>>
    /\ region_df = <<>>
    /\ sales_df = <<>>
    /\ date_df = <<>>
    /\ region_mapping_attr = <<>>
    /\ idx = 1
    /\ fact_count = 0
    /\ skipped_records = 0
    /\ last = NoLast

NormOff ==
    /\ n_pc = "off"
    /\ n_ref = <<>>
    /\ n_raw = Unset
    /\ n_out = [value |-> Unset, step |-> "unset"]
    /\ n_prev = Unset

Init == PipelineStart /\ NormOff

Next ==
    \/ Connect
    \/ ConnectFail
    \/ Extract
    \/ ExtractFail
    \/ Transform
    \/ LoadProductRow
    \/ LoadDateRow
    \/ LoadCustomerRow
    \/ LoadRegionRow
    \/ LoadFactRow
    \/ Commit
    \/ Close
    \/ NextRun

Spec == Init /\ [][Next]_vars

(***************************************************************************)
(* SpecSeeded: one run over a warehouse whose dimension tables already     *)
(* hold a row with surrogate key 0 (the tables exist before the run; the   *)
(* pipeline reads their keys, it does not create them)                     *)
(***************************************************************************)
SeededWarehouse ==
    [d \in Dimensions |->
        {[key |-> 0,
          nk |-> CASE d = "product" -> "P1"
                   [] d = "date" -> Day1
                   [] d = "customer" -> "C1"
                   [] d = "region" -> v_North_America,
          att |-> IF d = "customer" THEN "Ann" ELSE ""]}]

SeededStart ==
    /\ pc = "idle"
    /\ runs = 1
    /\ connects = 0
    /\ commits = 0
    /\ closes = 0
    /\ dim = SeededWarehouse
    /\ fact_sales = <<>>
    /\ maxid = [d \in Dimensions |-> 0]
    /\ cache = [d \in Dimensions |-> {}]
    /\ product_df = <<>>
    /\ customer_df = <<>>
    /\ region_df = <<>>
    /\ sales_df = <<>>
    /\ date_df = <<>>
    /\ region_mapping_attr = <<>>
    /\ idx = 1
    /\ fact_count = 0
    /\ skipped_records = 0
    /\ last = NoLast

InitSeeded == SeededStart /\ NormOff

\* a single run
NextSeeded ==
    \/ Connect
    \/ ConnectFail
    \/ Extract
    \/ ExtractFail
    \/ Transform
    \/ LoadProductRow
    \/ LoadDateRow
    \/ LoadCustomerRow
    \/ LoadRegionRow
    \/ LoadFactRow
    \/ Commit
    \/ Close

SpecSeeded == InitSeeded /\ [][NextSeeded]_vars

(***************************************************************************)
(* SpecNorm: the normalizer applied to bounded reference data and inputs   *)
(***************************************************************************)
\* region_name cells of regions.xlsx: the generator's names, and names that
\* collide with an alias key, with each other by case, or with nothing
RegionNamePool ==
    {v_North_America, v_Europe_West, r_Europe_South, r_Asia_Pacific_padded,
     r_East, r_EUROPE_EAST, r_europe_south, r_Mars, r_blank}

RefSources == SeqsUpTo(RegionNamePool, MaxRegionRows)

CaseVariants(s) == {s, Lower(s), Upper(s), Title(s), <<" ">> \o s \o <<"\t", " ">>}

RawInputs ==
    {None, NaN, <<>>, <<" ">>, <<" ", "\t", " ">>}
    \cup UNION {CaseVariants(k) : k \in DictKeys(region_aliases)}
    \cup UNION {CaseVariants(Strip(p)) : p \in RegionNamePool}
    \cup {s_Other, s_mARS_padded, s_eur, s_Pacific, s_Europe_East_Zone, s_xyz}

NormInit ==
    /\ n_pc = "ready"
    /\ n_ref \in RefSources
    /\ n_raw \in RawInputs
    /\ n_out = [value |-> Unset, step |-> "unset"]
    /\ n_prev = Unset
    /\ PipelineStart

\* one call of normalize_region_name with extract_region_data's mapping
NormalizeCall ==
    /\ n_pc = "ready"
    /\ n_out' = Normalize(n_raw, region_mapping(n_ref))
    /\ n_pc' = "done"
    /\ UNCHANGED <<n_ref, n_raw, n_prev>>
    /\ UNCHANGED pvars

\* the value returned is normalized again (once)
Renormalize ==
    /\ n_pc = "done"
    /\ n_prev = Unset
    /\ n_prev' = n_raw
    /\ n_raw' = n_out.value
    /\ n_pc' = "ready"
    /\ UNCHANGED <<n_ref, n_out>>
    /\ UNCHANGED pvars

NormNext == NormalizeCall \/ Renormalize

SpecNorm == NormInit /\ [][NormNext]_vars

(***************************************************************************)
(* Claims about the normalizer (checked under SpecNorm)                    *)
(***************************************************************************)
FirstCallDone == n_pc = "done" /\ n_prev = Unset
SecondCallDone == n_pc = "done" /\ n_prev # Unset

\* the reference spellings, stripped, in order of first appearance
CanonicalValues == Unique(StripColumn(n_ref))

IsBlankInput(raw) == raw \in {None, NaN} \/ Lower(Strip(raw)) = <<>>

\* C7: an input that is null/NaN or empty after trimming and lower-casing
\* (a whitespace-only string included) normalizes to null, by the null
\* branch, before any matching step.
C7_BlankGivesNull ==
    (n_pc = "done" /\ IsBlankInput(n_raw))
        => (n_out.value = None /\ n_out.step = "null")

\* C8 as stated: every input equal to a reference spelling c up to case and
\* surrounding whitespace normalizes to c exactly as spelled.
C8_CanonicalIdentity ==
    n_pc = "done" =>
        \A i \in 1..Len(CanonicalValues) :
            Lower(Strip(n_raw)) = Lower(CanonicalValues[i])
                => n_out.value = CanonicalValues[i]

\* reference spellings that differ from CanonicalValues[i] only by case
CaseTwins(i) ==
    {j \in 1..Len(CanonicalValues) :
        j # i /\ Lower(CanonicalValues[j]) = Lower(CanonicalValues[i])}

\* C8 amended: a non-empty input equal, up to case and surrounding
\* whitespace, to a reference spelling c normalizes by exact match to c as
\* spelled when no other reference spelling differs from c only by case, and
\* otherwise to the last such spelling in reference order; an alias on the
\* same key never wins.
C8_CanonicalIdentityUnlessCaseTwin ==
    (n_pc = "done" /\ n_raw \notin {None, NaN, <<>>}) =>
        \A i \in 1..Len(CanonicalValues) :
            (/\ Lower(Strip(n_raw)) = Lower(CanonicalValues[i])
             /\ \A j \in CaseTwins(i) : j < i)
                => (n_out.value = CanonicalValues[i] /\ n_out.step = "exact")

\* a reference spelling on an alias key, spelled unlike the alias target,
\* was returned for a differently-cased input
C8_Witness ==
    /\ n_pc = "done"
    /\ r_EUROPE_EAST \in {CanonicalValues[i] : i \in 1..Len(CanonicalValues)}
    /\ n_raw = <<" ">> \o k_europe_east \o <<"\t", " ">>
    /\ n_out.value = r_EUROPE_EAST

AliasKeys == DictKeys(region_aliases)
AliasTarget(k) == DictGet(region_aliases, k)

\* C9 as stated: whatever the reference data, an alias in any letter case
\* normalizes to its configured target, and the target normalizes to itself.
C9_AliasRoundTrip ==
    /\ (FirstCallDone /\ Lower(n_raw) \in AliasKeys)
            => n_out.value = AliasTarget(Lower(n_raw))
    /\ (SecondCallDone /\ Lower(n_prev) \in AliasKeys)
            => (n_raw = AliasTarget(Lower(n_prev)) /\ n_out.value = n_raw)

\* the reference data re-spells index key k: some reference value equals k
\* up to case and is not spelled as the value the alias table gives k
Respelled(k) ==
    \E i \in 1..Len(CanonicalValues) :
        Lower(CanonicalValues[i]) = k /\ CanonicalValues[i] # AliasTarget(k)

\* C9 amended: for every alias whose key, and whose target's key, the
\* reference data does not re-spell, the alias in any letter case normalizes
\* to its configured target and the target normalizes to itself.
C9_AliasRoundTripUnlessRespelled ==
    /\ (/\ FirstCallDone
        /\ Lower(n_raw) \in AliasKeys
        /\ ~Respelled(Lower(n_raw)))
            => n_out.value = AliasTarget(Lower(n_raw))
    /\ (/\ SecondCallDone
        /\ Lower(n_prev) \in AliasKeys
        /\ ~Respelled(Lower(n_prev))
        /\ ~Respelled(Lower(AliasTarget(Lower(n_prev)))))
            => (n_raw = AliasTarget(Lower(n_prev)) /\ n_out.value = n_raw)

\* "EMEA" went to its target and the target came back as itself
C9_Witness ==
    /\ SecondCallDone
    /\ n_prev = Upper(k_emea)
    /\ n_raw = v_Europe_Middle_East_Africa
    /\ n_out.value = v_Europe_Middle_East_Africa
    /\ n_ref # <<>>

(***************************************************************************)
(* Claims about the pipeline (checked under Spec)                          *)
(***************************************************************************)
NaturalKeys(d) == {r.nk : r \in dim[d]}

\* within each dimension a natural key has one row and a surrogate key one row
DimBijective ==
    \A d \in Dimensions : \A r1, r2 \in dim[d] :
        (r1.nk = r2.nk \/ r1.key = r2.key) => r1 = r2

\* every source row of the current run has its natural key in its dimension
SourcesPresent ==
    /\ \A i \in 1..Len(product_df) : product_df[i] \in NaturalKeys("product")
    /\ \A i \in 1..Len(date_df) : date_df[i] \in NaturalKeys("date")
    /\ \A i \in 1..Len(customer_df) : customer_df[i].customer_id \in NaturalKeys("customer")
    /\ \A i \in 1..Len(region_df) : region_df[i] \in NaturalKeys("region")

InDimensionLoop == pc \in {"products", "dates", "customers", "regions"}

\* C1: over any sequence of runs each dimension holds one row per natural
\* key loaded: a lookup-then-insert of a key that has a row inserts nothing,
\* distinct natural keys never share a surrogate key, a row once written is
\* never changed or removed, and a dimension loop step leaves its source
\* row's key present.
C1_OneRowPerNaturalKey ==
    [][/\ DimBijective'
       /\ \A d \in Dimensions : dim[d] \subseteq dim'[d]
       /\ \A d \in Dimensions :
            Cardinality(dim'[d]) - Cardinality(dim[d]) =
                Cardinality(NaturalKeys(d)') - Cardinality(NaturalKeys(d))
       /\ (pc \in {"facts", "commit", "close", "done"} => SourcesPresent)]_vars

\* a second run met natural keys loaded by the first and by this run
C1_Witness ==
    /\ runs = 2
    /\ pc = "facts"
    /\ product_df = <<"P1", "P1">>
    /\ Cardinality(dim["product"]) = 3
    /\ Cardinality(dim["customer"]) = 2
    /\ Cardinality(dim["region"]) = 3

FactKeys(f) ==
    [product |-> f.product_key, date |-> f.date_key,
     customer |-> f.customer_key, region |-> f.region_key]

FactRefsResolve ==
    \A i \in 1..Len(fact_sales) : \A d \in Dimensions :
        /\ FactKeys(fact_sales[i])[d] # <<>>
        /\ FactKeys(fact_sales[i])[d][1] \in Keys(dim[d])

\* C2: every persisted fact row carries four non-null surrogate keys, each
\* the key of an existing dimension row; a transaction with a null lookup
\* result is dropped and adds no fact row.
C2_FactRowsFullyResolved ==
    [][/\ FactRefsResolve'
       /\ (pc = "facts" /\ last'.reason = "unresolved")
            => (fact_sales' = fact_sales /\ skipped_records' = skipped_records + 1)]_vars

C2_Witness ==
    /\ pc = "commit"
    /\ Len(fact_sales) = 1
    /\ fact_count = 1
    /\ last.row = 2
    /\ last.reason = "unresolved"

\* C3: a transaction whose product_id is not among this run's product ids is
\* rejected at the pre-check: no normalization, no lookup (the caches are
\* untouched), no fact row, also when the warehouse holds a row for it.
C3_PrecheckShortCircuits ==
    [][(pc = "facts" /\ sales_df[idx].product_id \notin ValidProducts)
        => /\ last'.ops = <<"precheck">>
           /\ last'.outcome = "skipped"
           /\ last'.region = Unset
           /\ cache' = cache
           /\ fact_sales' = fact_sales
           /\ skipped_records' = skipped_records + 1]_vars

\* P3 has a row from an earlier run, is not in this run's products, and the
\* transaction on it was rejected at the pre-check
C3_Witness ==
    /\ runs = 2
    /\ last.row # 0
    /\ last.reason = "invalid_product"
    /\ sales_df[last.row].product_id = "P3"
    /\ "P3" \in NaturalKeys("product")

\* C4: an exception raised while processing row i rejects row i only: the
\* loop goes on to row i+1 (to commit after the last row), exactly one of
\* the two counters grows, and a row that raised adds no fact row.
C4_RowErrorsAreContained ==
    [][pc = "facts"
        => /\ last'.row = idx
           /\ IF idx < Len(sales_df)
              THEN pc' = "facts" /\ idx' = idx + 1
              ELSE pc' = "commit"
           /\ fact_count' + skipped_records' = fact_count + skipped_records + 1
           /\ last'.reason = "exception"
                => (skipped_records' = skipped_records + 1 /\ fact_sales' = fact_sales)]_vars

\* the same transaction twice: the first raised, the second was admitted,
\* and the run stands at commit
C4_Witness ==
    /\ pc = "commit"
    /\ Len(sales_df) = 2
    /\ sales_df[1] = sales_df[2]
    /\ last.row = 2
    /\ last.outcome = "admitted"
    /\ skipped_records = 1
    /\ fact_count = 1

\* C5: when the fact loop runs, every row of the four dimension sources is
\* in its dimension, and from there to the end of the run no dimension
\* changes.
C5_DimensionsCompleteThenFrozen ==
    [][/\ pc = "facts" => SourcesPresent
       /\ pc \in {"facts", "commit", "close"} => dim' = dim]_vars

\* a transaction on a customer with no dimension row was looked up and
\* rejected, and the customer still has no row
C5_Witness ==
    /\ pc = "facts"
    /\ idx = 2
    /\ last.reason = "unresolved"
    /\ sales_df[1].customer_id = "C3"
    /\ "C3" \notin NaturalKeys("customer")

AllProcessed ==
    /\ SourcesPresent
    /\ fact_count + skipped_records = Len(sales_df)

\* C6: the connection is acquired once, before extraction; commit is issued
\* at most once, after every dimension row and transaction was processed,
\* and is followed by one close; a run that fails reaches neither.
C6_SingleTerminalCommit ==
    /\ connects <= 1
    /\ commits <= 1
    /\ closes <= commits
    /\ pc \notin {"idle", "failed"} => connects = 1
    /\ connects = 0 => (product_df = <<>> /\ sales_df = <<>>)
    /\ pc \in {"idle", "extract", "transform", "commit", "failed"} \/ InDimensionLoop \/ pc = "facts"
            => (commits = 0 /\ closes = 0)
    /\ pc = "close" => (commits = 1 /\ closes = 0)
    /\ pc = "done" => (commits = 1 /\ closes = 1)
    /\ commits = 1 => AllProcessed

C6_Witness ==
    /\ pc = "done"
    /\ commits = 1
    /\ closes = 1
    /\ Len(fact_sales) = 2

\* the cleaned input neither is an index key nor contains or is contained
\* in one
Unmatched(raw, mapping) ==
    /\ raw \notin {None, NaN, <<>>}
    /\ ~DictHas(mapping, Lower(Strip(raw)))
    /\ PartialMatches(Lower(Strip(raw)), mapping) = {}

\* C10: a non-empty region that matches no index key exactly or by
\* substring normalizes to the trimmed input title-cased; its transaction is
\* rejected (as an unresolved reference when nothing raised) unless the
\* region dimension holds a row of that name, and the loop goes on.
C10_UnmatchedRegionIsFabricated ==
    (/\ pc \in {"facts", "commit"}
     /\ last.row # 0
     /\ last.region # Unset
     /\ Unmatched(last.raw, region_mapping_attr))
        => /\ last.region = Title(Strip(last.raw))
           /\ last.region \notin NaturalKeys("region")
                => /\ last.outcome = "skipped"
                   /\ last.fault = "none" => last.reason = "unresolved"

\* " mARS\t" became "Mars", no Mars row exists, the transaction was rejected
\* as unresolved although product, date and customer have rows
C10_Witness ==
    /\ pc \in {"facts", "commit"}
    /\ last.row # 0
    /\ last.raw = s_mARS_padded
    /\ last.region = r_Mars
    /\ r_Mars \notin NaturalKeys("region")
    /\ last.reason = "unresolved"
    /\ "C2" \in NaturalKeys("customer")

\* the same input admitted: a Mars row from an earlier run, none in this
\* run's reference data
C10_PreloadedMarsAdmitted ==
    /\ last.row # 0
    /\ last.raw = s_mARS_padded
    /\ last.outcome = "admitted"
    /\ ~DictHas(region_mapping_attr, Lower(r_Mars))

(***************************************************************************)
(* Claims about the end-of-run counts (checked under Spec)                 *)
(***************************************************************************)
\* C11: the end-of-run report separates the transactions rejected for an
\* invalid product from those rejected for an unresolved reference: a batch
\* with the same number of rejections divided differently between the two
\* reasons would not print the same report.
C11_ReportSeparatesReasons ==
    pc = "commit" =>
        /\ last.skips \in Splits(skipped_records)
        /\ \A sp \in Splits(skipped_records) :
                (/\ sp["exception"] = last.skips["exception"]
                 /\ sp["invalid_product"] # last.skips["invalid_product"])
                    => ReportFor(fact_count, sp) # ReportFor(fact_count, last.skips)

\* one product rejection and one unresolved rejection are printed exactly as
\* two product rejections would be
C11_SameReportOtherSplit ==
    /\ pc = "commit"
    /\ last.skips = [r \in SkipReasons |->
                        IF r = "exception" THEN 0 ELSE 1]
    /\ Report[Len(Report)].n = 2

\* C12: when the fact loop has ended, fact_count + skipped_records is the
\* number of source transactions; fact_count grows exactly when a fact row is
\* inserted, both start each run at 0 and fact rows are inserted by the fact
\* loop only; a transaction whose product is not among the run's products
\* adds one to skipped_records and nothing to fact_count.
C12_CountsBalance ==
    [][/\ pc' = "commit" => fact_count' + skipped_records' = Len(sales_df')
       /\ pc = "facts"
            => /\ Len(fact_sales') - Len(fact_sales) = fact_count' - fact_count
               /\ fact_count' + skipped_records' = fact_count + skipped_records + 1
       /\ pc # "facts" => fact_sales' = fact_sales
       /\ (pc \in {"idle", "extract", "transform"} \/ InDimensionLoop)
            => (fact_count = 0 /\ skipped_records = 0)
       /\ (pc = "facts" /\ sales_df[idx].product_id \notin ValidProducts)
            => (skipped_records' = skipped_records + 1 /\ fact_count' = fact_count)]_vars

\* products P1..P3 loaded, one transaction on P4: skipped 1, admitted 0
C12_Witness ==
    /\ pc = "commit"
    /\ product_df = <<"P1", "P2", "P3">>
    /\ Len(sales_df) = 1
    /\ sales_df[1].product_id = "P4"
    /\ skipped_records = 1
    /\ fact_count = 0

(***************************************************************************)
(* Claims about customers (checked under Spec)                             *)
(***************************************************************************)
\* out holds, in source order, the first row of every customer_id of src
FirstOccurrences(src, out) ==
    LET first(id) == Min({j \in 1..Len(src) : src[j].customer_id = id})
    IN /\ \A j \in 1..Len(src) :
            \E i \in 1..Len(out) : out[i].customer_id = src[j].customer_id
       /\ \A i \in 1..Len(out) :
            /\ \E j \in 1..Len(src) : src[j].customer_id = out[i].customer_id
            /\ out[i] = src[first(out[i].customer_id)]
       /\ \A i1, i2 \in 1..Len(out) :
            i1 < i2 => first(out[i1].customer_id) < first(out[i2].customer_id)

CustomerRows(id) == {r \in dim["customer"] : r.nk = id}

\* every fact row written by a step resolves its transaction's customer to
\* the one row of that customer_id
FactStepResolvesCustomer ==
    (pc = "facts" /\ Len(fact_sales') > Len(fact_sales))
        => \E r \in dim["customer"] :
              /\ CustomerRows(sales_df[idx].customer_id) = {r}
              /\ fact_sales'[Len(fact_sales')].customer_key = <<r.key>>

\* C13 as stated: transformation keeps the first row of each customer_id;
\* after dimension loading the customer has exactly one row and that row
\* carries the first source row's attributes; every transaction of the
\* customer resolves to it.
C13_FirstCustomerRowWins ==
    [][/\ pc = "transform" => FirstOccurrences(customer_df, customer_df')
       /\ pc = "facts"
            => \A i \in 1..Len(customer_df) :
                  \E r \in dim["customer"] :
                      /\ CustomerRows(customer_df[i].customer_id) = {r}
                      /\ r.att = customer_df[i].customer_name
       /\ FactStepResolvesCustomer]_vars

\* C13 amended: transformation keeps the first row of each customer_id; a
\* customer with no row when its source row is loaded gets one row carrying
\* the first source row's attributes, a customer that has a row keeps it as
\* it is; after dimension loading the customer has exactly one row and every
\* transaction of the customer resolves to it.
C13_FirstCustomerRowWinsUnlessLoadedBefore ==
    [][/\ pc = "transform" => FirstOccurrences(customer_df, customer_df')
       /\ pc = "customers"
            => IF CustomerRows(customer_df[idx].customer_id) = {}
               THEN \E r \in dim'["customer"] :
                      /\ dim'["customer"] = dim["customer"] \cup {r}
                      /\ r.nk = customer_df[idx].customer_id
                      /\ r.att = customer_df[idx].customer_name
               ELSE dim' = dim
       /\ pc = "facts"
            => \A i \in 1..Len(customer_df) :
                  Cardinality(CustomerRows(customer_df[i].customer_id)) = 1
       /\ FactStepResolvesCustomer]_vars

\* the source listed C1 as Ann, then as Bob: the one C1 row is Ann's, and a
\* transaction of C1 was admitted on it
C13_Witness ==
    /\ pc = "commit"
    /\ Len(customer_df) = 2
    /\ customer_df[1] = [customer_id |-> "C1", customer_name |-> "Ann"]
    /\ \E r \in dim["customer"] : CustomerRows("C1") = {r} /\ r.att = "Ann"
    /\ last.row = 1
    /\ last.outcome = "admitted"
    /\ sales_df[1].customer_id = "C1"

(***************************************************************************)
(* Claims about dates and measures (checked under Spec)                    *)
(***************************************************************************)
\* C14: full_date is a calendar day without a time of day where the date
\* dimension is built and where facts are resolved: the date dimension
\* holds one row per calendar day, so transactions of the same day share
\* one date key.
C14_OneDateRowPerDay ==
    /\ \A i \in 1..Len(date_df) : date_df[i].time = "00:00"
    /\ \A r1, r2 \in dim["date"] : r1.nk.day = r2.nk.day => r1 = r2

\* two transactions of 2024-01-01, one at 10:30, left two date rows
C14_TwoRowsForOneDay ==
    /\ pc = "commit"
    /\ Len(sales_df) = 2
    /\ sales_df[1].order_date = Day1
    /\ sales_df[2].order_date = Day1Late
    /\ Cardinality(dim["date"]) = 2

\* C15: a transaction with a null source discount is processed as with
\* discount 0: no transaction in the loop and no persisted fact row has a
\* null discount.
C15_NullDiscountReadAsZero ==
    /\ pc \in {"facts", "commit"}
            => \A i \in 1..Len(sales_df) : sales_df[i].discount # <<>>
    /\ \A i \in 1..Len(fact_sales) : fact_sales[i].discount # <<>>

\* C16: in every persisted fact row total_amount is quantity times the
\* row's unit_price, rounded to 2 decimals (amounts in thousandths).
C16_TotalIsQuantityTimesUnitPrice ==
    \A i \in 1..Len(fact_sales) :
        fact_sales[i].total_amount =
            Round2(fact_sales[i].quantity * fact_sales[i].unit_price)

(***************************************************************************)
(* Claims about substring matching (checked under SpecNorm)                *)
(***************************************************************************)
\* the alias keys as written, then the reference keys that are no alias key
IndexKeyOrder ==
    LET canon == canonical_regions(n_ref)
        NotAlias(k) == k \notin AliasKeys
    IN [i \in 1..Len(region_aliases) |-> region_aliases[i][1]]
       \o SelectSeq([i \in 1..Len(canon) |-> canon[i][1]], NotAlias)

\* the value the index holds for key k: the reference spelling if there is
\* one, the alias target otherwise
IndexValue(k) ==
    IF DictHas(canonical_regions(n_ref), k)
    THEN DictGet(canonical_regions(n_ref), k)
    ELSE AliasTarget(k)

SubstringMatches(s) ==
    {i \in 1..Len(IndexKeyOrder) :
        IsSubstr(s, IndexKeyOrder[i]) \/ IsSubstr(IndexKeyOrder[i], s)}

\* C17: a non-empty cleaned input that is no index key but contains, or is
\* contained in, some index key normalizes to the value of the first such
\* key in index order (alias keys as written, then the reference keys that
\* are no alias key), however long the other matching keys are.
C17_FirstSubstringMatchWins ==
    LET s == Lower(Strip(n_raw))
    IN (/\ n_pc = "done"
        /\ n_raw \notin {None, NaN}
        /\ s # <<>>
        /\ \A i \in 1..Len(IndexKeyOrder) : IndexKeyOrder[i] # s
        /\ SubstringMatches(s) # {})
            => /\ n_out.step = "partial"
               /\ n_out.value = IndexValue(IndexKeyOrder[Min(SubstringMatches(s))])

\* "Europe South" against reference data without it: the key "south" comes
\* before the longer key "europe" and gives South America
C17_Witness ==
    /\ n_pc = "done"
    /\ n_ref = <<r_Mars>>
    /\ n_raw = r_Europe_South
    /\ n_out.step = "partial"
    /\ n_out.value = v_South_America
    /\ {5, 8} \subseteq SubstringMatches(Lower(n_raw))

(***************************************************************************)
(* Claims about key resolution (checked under Spec)                        *)
(***************************************************************************)
\* the surrogate key of the row that holds natural key nk
KeyOf(d, nk) == (CHOOSE r \in dim[d] : r.nk = nk).key

\* product, customer and date of the row are among this run's sources and
\* its normalized region is a region_name of this run's reference data
FullyReferenced(row) ==
    /\ row.product_id \in ValidProducts
    /\ \E i \in 1..Len(customer_df) : customer_df[i].customer_id = row.customer_id
    /\ row.order_date # NaT
    /\ \E i \in 1..Len(region_df) :
            region_df[i] = normalize_region_name(row.region, region_mapping_attr)

\* C18: a natural key loaded by this run's dimension loops, inserted or
\* found, is resolved in the fact loop to the key of its one row: a
\* transaction whose product, customer, date and normalized region are all
\* among this run's sources, and whose processing raises nothing, is
\* admitted as exactly one fact row carrying those four keys.
C18_LoadedKeysResolve ==
    [][(/\ pc = "facts"
        /\ FullyReferenced(sales_df[idx])
        /\ last'.fault = "none")
        => /\ last'.outcome = "admitted"
           /\ fact_count' = fact_count + 1
           /\ Len(fact_sales') = Len(fact_sales) + 1
           /\ SubSeq(fact_sales', 1, Len(fact_sales)) = fact_sales
           /\ LET f == fact_sales'[Len(fact_sales')]
                  row == sales_df[idx]
              IN /\ f.product_key = <<KeyOf("product", row.product_id)>>
                 /\ f.date_key = <<KeyOf("date", row.order_date)>>
                 /\ f.customer_key = <<KeyOf("customer", row.customer_id)>>
                 /\ f.region_key =
                        <<KeyOf("region",
                                normalize_region_name(row.region, region_mapping_attr))>>]_vars

\* first run on an empty warehouse: every key of the transaction was
\* inserted by this run after a miss, and the transaction was admitted on
\* them
C18_Witness ==
    /\ runs = 1
    /\ pc = "commit"
    /\ Len(sales_df) = 1
    /\ last.outcome = "admitted"
    /\ Len(fact_sales) = 1
    /\ fact_sales[1].product_key = <<1>>
    /\ fact_sales[1].region_key = <<1>>
    /\ \A d \in Dimensions : cache[d] # {}

(***************************************************************************)
(* Claims about a warehouse holding key 0 (checked under SpecSeeded)       *)
(***************************************************************************)
\* C19: in all four dimensions a natural key whose row has surrogate key 0
\* is recognised as present by dimension loading: it never gets a second
\* row.
C19_KeyZeroRowIsPresent ==
    \A d \in Dimensions : \A r \in dim[d] :
        r.key = 0 => {q \in dim[d] : q.nk = r.nk} = {r}

\* the region loop met North America on key 0 and left its one row alone
C19_RegionKeyZeroKept ==
    /\ pc \in {"facts", "commit"}
    /\ \E i \in 1..Len(region_df) : region_df[i] = v_North_America
    /\ {q \in dim["region"] : q.nk = v_North_America} = SeededWarehouse["region"]

====
